---- MODULE Spec2Model ----
(***************************************************************************)
(* A model of linodecli/cli.py: the schema resolver (_resolve_ref,         *)
(* _resolve_allOf), the two flatteners (_parse_args, _parse_properties),   *)
(* the operation compiler (bake) and the request translator (do_request).  *)
(*                                                                         *)
(* Python values are modelled as follows.                                  *)
(*   str        a TLA+ string; split, join, replace and "in" work on the   *)
(*              characters (SubSeq, Len and \o of strings)                 *)
(*   dict       a function whose domain is a set of strings; a dict is     *)
(*              iterated in the order of KeyOrder, the order in which the  *)
(*              documents considered here list their keys                  *)
(*   list       a sequence                                                 *)
(*   None       the string None                                            *)
(*   JSON body  tagged values [k, v]: "str", "list", "obj" (see VStr)      *)
(***************************************************************************)
EXTENDS Integers, Sequences, FiniteSets, TLC

VARIABLES
    pc,         \* which call of the program comes next
    spec,       \* CLI.spec: the API document being baked
    ops,        \* CLI.ops: command -> action -> operation
    node,       \* the schema handed to the flattener / the allOf list
    args,       \* the dict _parse_args returned
    request,    \* what do_request handed to requests: url, X-Filter, body
    document,   \* the document handed to bake, as it was handed over
    cursor,     \* bake's place in its loops: the path and the method
    path_params, \* bake's params: the URLParams of the path it is in
    data_file,  \* the pickle on disk: << >> when there is none, else <<ops>>
    base_url,   \* CLI.base_url
    spec_version, \* CLI.spec_version
    call        \* the command, action, args and filters of the last call

vars == <<pc, spec, ops, node, args, request,
          document, cursor, path_params, data_file, base_url, spec_version, call>>

bake_vars == <<document, cursor, path_params, data_file, base_url, spec_version, call>>

None == "<None>"

(***************************************************************************)
(* Strings.                                                                *)
(***************************************************************************)
RECURSIVE SplitFrom(_, _, _, _)
SplitFrom(s, sep, i, start) ==
    IF i > Len(s) THEN << SubSeq(s, start, Len(s)) >>
    ELSE IF SubSeq(s, i, i) = sep
         THEN << SubSeq(s, start, i - 1) >> \o SplitFrom(s, sep, i + 1, i + 1)
         ELSE SplitFrom(s, sep, i + 1, start)

\* str.split(sep) for a one-character separator
Split(s, sep) == SplitFrom(s, sep, 1, 1)

RECURSIVE Join(_, _)
\* sep.join(parts)
Join(parts, sep) ==
    IF Len(parts) = 0 THEN ""
    ELSE IF Len(parts) = 1 THEN parts[1]
    ELSE parts[1] \o sep \o Join(Tail(parts), sep)

\* sub in s
Contains(s, sub) ==
    \E i \in 1..(Len(s) - Len(sub) + 1) : SubSeq(s, i, i + Len(sub) - 1) = sub

RECURSIVE ReplaceFrom(_, _, _, _)
ReplaceFrom(s, old, new, i) ==
    IF i + Len(old) - 1 > Len(s) THEN SubSeq(s, i, Len(s))
    ELSE IF SubSeq(s, i, i + Len(old) - 1) = old
         THEN new \o ReplaceFrom(s, old, new, i + Len(old))
         ELSE SubSeq(s, i, i) \o ReplaceFrom(s, old, new, i + 1)

\* s.replace(old, new), old not empty
Replace(s, old, new) == ReplaceFrom(s, old, new, 1)

(***************************************************************************)
(* Dicts.                                                                  *)
(***************************************************************************)
EmptyDict == [k \in {} |-> None]

Has(d, k) == k \in DOMAIN d

\* d.get(k, default)
Get(d, k, default) == IF k \in DOMAIN d THEN d[k] ELSE default

\* d.update(e)
Update(d, e) == [k \in DOMAIN d \cup DOMAIN e |-> IF k \in DOMAIN e THEN e[k] ELSE d[k]]

\* d[k] = v
Put(d, k, v) == [j \in DOMAIN d \cup {k} |-> IF j = k THEN v ELSE d[j]]

\* del d[k]
Del(d, k) == [j \in DOMAIN d \ {k} |-> d[j]]

\* the order in which the documents list the keys of their property maps
KeyOrder == << "a.x", "a", "b", "x", "y", "a_", "id", "id_", "label", "status",
              "pages", "data", "page" >>

RECURSIVE SetToSeq(_)
SetToSeq(S) ==
    IF S = {} THEN << >>
    ELSE LET e == CHOOSE e \in S : TRUE IN << e >> \o SetToSeq(S \ {e})

\* the keys of d in iteration order: those of KeyOrder first, in that order
Keys(d) ==
    SelectSeq(KeyOrder, LAMBDA k : k \in DOMAIN d)
        \o SetToSeq(DOMAIN d \ { KeyOrder[i] : i \in DOMAIN KeyOrder })

(***************************************************************************)
(* Reference Resolver.                                                     *)
(***************************************************************************)
\* what a failed key lookup (KeyError) leaves in place of the value
KeyError == ("$error" :> "KeyError")

IsErr(d) == "$error" \in DOMAIN d

RECURSIVE Walk(_, _)
\* for part in path_parts: tmp = tmp[part]
Walk(tmp, parts) ==
    IF Len(parts) = 0 THEN tmp
    ELSE IF ~Has(tmp, Head(parts)) THEN KeyError
    ELSE Walk(tmp[Head(parts)], Tail(parts))

_resolve_ref(doc, ref) == Walk(doc, Tail(Split(ref, "/")))

\* the property map one member of an allOf contributes
MemberProps(doc, cur) ==
    LET data == IF Has(cur, "$ref") THEN _resolve_ref(doc, cur["$ref"]) ELSE cur
    IN  IF IsErr(data) THEN KeyError
        ELSE IF Has(data, "properties") THEN data["properties"]
        ELSE IF Has(cur, "$ref") /\ Contains(cur["$ref"], "/properties/") THEN data
        ELSE EmptyDict

\* the update the other way round: a key already in ret keeps its value
AllOfUpdateKeepFirst(ret, props) == Update(props, ret)

\* ret.update(props) as _resolve_allOf does it
AllOfUpdate(ret, props) == Update(ret, props)

RECURSIVE AllOfLoop(_, _, _)
AllOfLoop(doc, members, ret) ==
    IF Len(members) = 0 THEN ret
    ELSE LET props == MemberProps(doc, Head(members))
         IN  IF IsErr(props) \/ IsErr(ret) THEN KeyError
             ELSE AllOfLoop(doc, Tail(members), AllOfUpdate(ret, props))

_resolve_allOf(doc, members) == AllOfLoop(doc, members, EmptyDict)

RECURSIVE FollowRefs(_, _)
\* while "$ref" in info: info = self._resolve_ref(info["$ref"])
FollowRefs(doc, info) ==
    IF Has(info, "$ref") THEN FollowRefs(doc, _resolve_ref(doc, info["$ref"])) ELSE info

(***************************************************************************)
(* Argument Schema Flattener.                                              *)
(***************************************************************************)
\* info.get("readOnly") as a condition
ReadOnly(info) == Get(info, "readOnly", FALSE)

\* the tagging left out: the item fields keep whatever tag they had
TagListItemsSkipped(item_args, path) == item_args

\* for _, v in item_args.items(): v["list_item"] = path
TagListItems(item_args, path) ==
    [p \in DOMAIN item_args |-> Put(item_args[p], "list_item", path)]

\* the guard of the flattener's read-only skip, on the resolved property
SkipsReadOnly(info) == ReadOnly(info)

RECURSIVE _parse_args(_, _, _, _)
RECURSIVE ParseArgsLoop(_, _, _, _, _)
RECURSIVE ParseArg(_, _, _, _, _)

\* the body of the loop of _parse_args, for the property arg with schema info0
ParseArg(doc, arg, info0, prefix, acc) ==
    LET info1 == IF Has(info0, "allOf") THEN _resolve_allOf(doc, info0["allOf"]) ELSE info0
        info  == FollowRefs(doc, info1)
        path  == Join(Append(prefix, arg), ".")
        fmt   == Get(info, "x-linode-cli-format", Get(info, "format", None))
        typ   == IF Has(info, "type") /\ info["type"] # "" THEN info["type"] ELSE "string"
        entry == [type |-> typ, desc |-> Get(info, "description", ""), name |-> arg, format |-> fmt]
    IN  IF IsErr(acc) \/ IsErr(info) THEN KeyError
        ELSE IF Has(info, "properties")
        THEN _parse_args(doc, info["properties"], Append(prefix, arg), acc)
        ELSE IF SkipsReadOnly(info) THEN acc
        ELSE IF fmt = "json" THEN Put(acc, path, [entry EXCEPT !.type = "object"])
        ELSE IF typ = "array" /\ Has(info, "items")
        THEN LET items0 == info["items"]
                 items1 == IF Has(items0, "allOf")
                           THEN [type |-> "object", items |-> _resolve_allOf(doc, items0["allOf"])]
                           ELSE items0
                 items  == IF Has(items1, "$ref") THEN _resolve_ref(doc, items1["$ref"]) ELSE items1
             IN  IF ~Has(items, "type") THEN KeyError
                 ELSE LET withType == Put(acc, path, Put(entry, "item_type", items["type"]))
                      IN  IF items["type"] = "object" /\ Has(items, "properties") /\ ~ReadOnly(items)
                          THEN LET item_args == _parse_args(doc, items["properties"],
                                                            Append(prefix, arg), EmptyDict)
                               IN  IF IsErr(item_args) THEN KeyError
                                   ELSE Del(Update(withType, TagListItems(item_args, path)), path)
                          ELSE withType
        ELSE Put(acc, path, entry)

ParseArgsLoop(doc, keys, props, prefix, acc) ==
    IF Len(keys) = 0 THEN acc
    ELSE ParseArgsLoop(doc, Tail(keys), props, prefix,
                       ParseArg(doc, Head(keys), props[Head(keys)], prefix, acc))

\* CLI._parse_args(node, prefix, args)
_parse_args(doc, props, prefix, acc) == ParseArgsLoop(doc, Keys(props), props, prefix, acc)

(***************************************************************************)
(* Request-body schemas the flattener is run on: every property map of     *)
(* nesting depth at most MaxDepth built from scalar leaves, read-only      *)
(* leaves, scalar arrays, json blobs, references, nested objects and       *)
(* arrays of objects, each of the last two also marked read-only.          *)
(***************************************************************************)
MaxDepth == 2

RefCfg == "#/components/schemas/Cfg"

\* the components the request-body schemas refer to
ArgDoc ==
    [components |-> [schemas |->
        [Cfg |-> [type |-> "object",
                  properties |-> [id |-> [type |-> "integer", readOnly |-> TRUE],
                                  status |-> [type |-> "string"]]]]]]

StringLeaf == [type |-> "string"]
ReadOnlyLeaf == [type |-> "integer", readOnly |-> TRUE]

ScalarArray == [type |-> "array", items |-> [type |-> "string"]]

Leaves ==
    { StringLeaf, ReadOnlyLeaf, ScalarArray,
      ("type" :> "object") @@ ("x-linode-cli-format" :> "json"),
      ("$ref" :> RefCfg),
      [type |-> "array", items |-> ("$ref" :> RefCfg)] }

\* the schema of the given kind with the property map pm one level down
Composite(kind, pm) ==
    CASE kind = "object" -> [type |-> "object", properties |-> pm]
      [] kind = "read-only object" ->
            [type |-> "object", properties |-> pm, readOnly |-> TRUE]
      [] kind = "array" ->
            [type |-> "array", items |-> [type |-> "object", properties |-> pm]]
      [] kind = "read-only array" ->
            [type |-> "array", readOnly |-> TRUE,
             items |-> [type |-> "object", properties |-> pm]]
      [] kind = "read-only items" ->
            [type |-> "array",
             items |-> [type |-> "object", properties |-> pm, readOnly |-> TRUE]]

Kinds == {"object", "read-only object", "array", "read-only array", "read-only items"}

\* a property map: the property first, alone or beside a second property
Beside(first, n, second) ==
    CASE second = "alone"     -> (first :> n)
      [] second = "string"    -> (first :> n) @@ ("y" :> StringLeaf)
      [] second = "read-only" -> (first :> n) @@ ("y" :> ReadOnlyLeaf)
      [] second = "b string"    -> (first :> n) @@ ("b" :> StringLeaf)
      [] second = "b read-only" -> (first :> n) @@ ("b" :> ReadOnlyLeaf)
      [] second = "b array"     -> (first :> n) @@ ("b" :> ScalarArray)
      [] second = "dotted"      -> (first :> n) @@ ("a.x" :> StringLeaf)

RECURSIVE Nodes(_)
\* property maps one level down: x alone, or x beside a scalar y
InnerMaps(d) == { Beside("x", n, second) : n \in Nodes(d), second \in {"alone", "string", "read-only"} }

Nodes(d) ==
    IF d = 0 THEN Leaves
    ELSE Leaves \cup { Composite(kind, pm) : kind \in Kinds, pm \in InnerMaps(d - 1) }

\* the request-body property maps: a alone, a beside a scalar or a scalar
\* array b, and a beside a scalar property whose own name has a dot in it
BodySchemas ==
    { Beside("a", n, second) : n \in Nodes(MaxDepth),
          second \in {"alone", "b string", "b read-only", "b array", "dotted"} }

(***************************************************************************)
(* The flattener as a program: it is handed a schema and returns args.     *)
(***************************************************************************)
NoRequest == [url |-> None, filter |-> None, body |-> None, json |-> [k |-> "none", v |-> None]]

NoCall == [command |-> None, action |-> None, args |-> EmptyDict,
           filters |-> [k |-> "none", v |-> None], operation |-> EmptyDict]

\* what __init__ leaves before anything is baked or loaded
Constructed ==
    /\ document = EmptyDict
    /\ cursor = [path |-> 0, m |-> 0]
    /\ path_params = << >>
    /\ data_file = << >>
    /\ base_url = "https://api.linode.com/v4"
    /\ spec_version = "None"
    /\ call = NoCall

InitArgs ==
    /\ pc = "parse_args"
    /\ spec = ArgDoc
    /\ ops = << >>
    /\ node \in BodySchemas
    /\ args = EmptyDict
    /\ request = NoRequest
    /\ Constructed

CallParseArgs ==
    /\ pc = "parse_args"
    /\ args' = _parse_args(spec, node, <<>>, EmptyDict)
    /\ pc' = "do_request"
    /\ UNCHANGED <<spec, ops, node, request, bake_vars>>

(***************************************************************************)
(* JSON values as the request translator handles them, and json.dumps.     *)
(* A dict of the translator keeps its keys in insertion order: it is a     *)
(* sequence of <<key, value>> with no key twice, as is the namespace       *)
(* argparse returns.                                                       *)
(***************************************************************************)
VStr(s)  == [k |-> "str", v |-> s]
VList(q) == [k |-> "list", v |-> q]
VObj(d)  == [k |-> "obj", v |-> d]
VNone    == [k |-> "none", v |-> None]
\* what an operation Python rejects (TypeError) leaves in place of the value
VError   == [k |-> "err", v |-> "TypeError"]

RECURSIVE Dumps(_)
RECURSIVE DumpsItems(_)
RECURSIVE DumpsPairs(_)
DumpsItems(q) ==
    IF Len(q) = 0 THEN ""
    ELSE IF Len(q) = 1 THEN Dumps(q[1])
    ELSE Dumps(q[1]) \o ", " \o DumpsItems(Tail(q))

DumpsPairs(q) ==
    IF Len(q) = 0 THEN ""
    ELSE LET one == "\"" \o q[1][1] \o "\": " \o Dumps(q[1][2])
         IN  IF Len(q) = 1 THEN one ELSE one \o ", " \o DumpsPairs(Tail(q))

\* json.dumps(value)
Dumps(val) ==
    CASE val.k = "str"  -> "\"" \o val.v \o "\""
      [] val.k = "none" -> "null"
      [] val.k = "list" -> "[" \o DumpsItems(val.v) \o "]"
      [] val.k = "obj"  -> "{" \o DumpsPairs(val.v) \o "}"
      [] OTHER          -> "<TypeError>"

NsKeys(ns) == { ns[i][1] : i \in DOMAIN ns }
NsHas(ns, key) == key \in NsKeys(ns)
NsGet(ns, key) == ns[CHOOSE i \in DOMAIN ns : ns[i][1] = key][2]
\* setattr(ns, key, val)
NsPut(ns, key, val) ==
    IF NsHas(ns, key)
    THEN [i \in DOMAIN ns |-> IF ns[i][1] = key THEN <<key, val>> ELSE ns[i]]
    ELSE Append(ns, <<key, val>>)
\* del vars(ns)[key]
NsDel(ns, key) == SelectSeq(ns, LAMBDA e : e[1] # key)

(***************************************************************************)
(* CLIOperation.parse_args (linodecli/operation.py): the namespace built   *)
(* from what the user supplied.  given maps a name to the value supplied   *)
(* for it; a name not supplied reads None.  The URL parameters come first, *)
(* then one attribute per filterable column (get) or per Argument          *)
(* (post, put); last, the values of the Arguments tagged list_item are     *)
(* grouped into a list of objects set at the array's path.                 *)
(***************************************************************************)
Supplied(given, name) == Get(given, name, VNone)

RECURSIVE NsFill(_, _, _)
NsFill(ns, names, given) ==
    IF Len(names) = 0 THEN ns
    ELSE NsFill(NsPut(ns, Head(names), Supplied(given, Head(names))), Tail(names), given)

ParamNames(params) == [i \in DOMAIN params |-> params[i].name]

FilterableNames(model) ==
    IF model.k = "none" THEN << >>
    ELSE LET f == SelectSeq(model.attrs, LAMBDA at : at.filterable)
         IN  [i \in DOMAIN f |-> f[i].name]

RECURSIVE SetPath(_, _, _)
\* cur[part] = {} where missing, down the parts, then the assignment of val
SetPath(obj, parts, val) ==
    IF obj.k # "obj" THEN VError
    ELSE IF Len(parts) = 1 THEN VObj(NsPut(obj.v, parts[1], val))
    ELSE LET child == IF NsHas(obj.v, Head(parts)) THEN NsGet(obj.v, Head(parts))
                      ELSE VObj(<< >>)
             sub   == SetPath(child, Tail(parts), val)
         IN  IF sub.k = "err" THEN VError
             ELSE VObj(NsPut(obj.v, Head(parts), sub))

\* the name of an item field below the array at list_name
ItemName(path, list_name) == SubSeq(path, Len(list_name) + 2, Len(path))

RECURSIVE GroupItem(_, _, _, _, _)
\* the i-th object of the list at list_name
GroupItem(ns, fields, list_name, i, obj) ==
    IF Len(fields) = 0 THEN obj
    ELSE LET val  == NsGet(ns, Head(fields))
             next == IF val.k = "list" /\ i <= Len(val.v)
                     THEN SetPath(obj, Split(ItemName(Head(fields), list_name), "."), val.v[i])
                     ELSE obj
         IN  GroupItem(ns, Tail(fields), list_name, i, next)

RECURSIVE GroupLists(_, _, _)
GroupLists(ns, cli_args, names) ==
    IF Len(names) = 0 THEN ns
    ELSE LET list_name == Head(names)
             fields == SelectSeq(Keys(cli_args),
                           LAMBDA p : cli_args[p].list_item = list_name
                                      /\ NsHas(ns, p) /\ NsGet(ns, p).k = "list")
             n == IF Len(fields) = 0 THEN 0 ELSE Len(NsGet(ns, fields[1]).v)
             objs == [i \in 1..n |-> GroupItem(ns, fields, list_name, i, VObj(<< >>))]
         IN  GroupLists(IF n = 0 THEN ns ELSE NsPut(ns, list_name, VList(objs)),
                        cli_args, Tail(names))

parse_args(operation, given) ==
    LET ns0 == NsFill(<< >>, ParamNames(operation.params), given)
    IN  IF operation.method = "get"
        THEN NsFill(ns0, FilterableNames(operation.response_model), given)
        ELSE IF operation.method \in {"post", "put"}
        THEN LET ns1 == NsFill(ns0, Keys(operation.args), given)
                 lists == { operation.args[p].list_item : p \in DOMAIN operation.args } \ {None}
             IN  GroupLists(ns1, operation.args, SetToSeq(lists))
        ELSE ns0

(***************************************************************************)
(* CLI.do_request.                                                         *)
(***************************************************************************)
\* f"?page={self.page}&page_size={self.page_size}" with the values __init__ sets
PageQuery == "?page=1&page_size=100"

\* the names between braces in a path template, in order
Placeholders(url) ==
    LET parts == Split(url, "{")
    IN  [i \in 1..(Len(parts) - 1) |-> Split(parts[i + 1], "}")[1]]

RECURSIVE FormatLoop(_, _, _)
FormatLoop(url, names, ns) ==
    IF Len(names) = 0 THEN url
    ELSE IF ~NsHas(ns, Head(names)) THEN None
    ELSE LET val == NsGet(ns, Head(names))
             txt == IF val.k = "str" THEN val.v ELSE "None"
         IN  FormatLoop(Replace(url, "{" \o Head(names) \o "}", txt), Tail(names), ns)

\* operation.url.format(**vars(parsed_args))
Format(url, ns) == FormatLoop(url, Placeholders(url), ns)

RECURSIVE DelParams(_, _)
\* for p in operation.params: if p.name in filters: del filters[p.name]
DelParams(filters, params) ==
    IF Len(params) = 0 THEN filters
    ELSE DelParams(NsDel(filters, Head(params).name), Tail(params))

\* {k: v for k, v in d.items() if v is not None}
DropNone(ns) == SelectSeq(ns, LAMBDA e : e[2].k # "none")

\* the test as it would be by truth value: an empty mapping is no override
HasFilterOverrideByTruth(filter_header) == filter_header.k # "none" /\ Len(filter_header.v) > 0

\* the test do_request makes to use the caller's filter: is not None
HasFilterOverride(filter_header) == filter_header.k # "none"

\* the X-Filter header of a get; None when the header is not set
FilterHeader(operation, parsed_args, filter_header) ==
    IF HasFilterOverride(filter_header) THEN Dumps(filter_header)
    ELSE LET filters == DropNone(DelParams(parsed_args, operation.params))
         IN  IF Len(filters) > 0 THEN Dumps(VObj(filters)) ELSE None

\* the entries of the namespace that go into the body
BodyEntries(operation, parsed_args) == DropNone(parsed_args)

RECURSIVE Expand(_, _)
\* for k, v in to_json.items(): ... cur[k.split(".")[-1]] = v
Expand(to_json, expanded_json) ==
    IF Len(to_json) = 0 THEN expanded_json
    ELSE Expand(Tail(to_json), SetPath(expanded_json, Split(to_json[1][1], "."), to_json[1][2]))

\* self.config.update (linodecli/configuration.py) overlays saved defaults on
\* unset arguments; no defaults are saved here, and it returns the namespace
do_request(operation, given, filter_header) ==
    LET parsed_args == parse_args(operation, given)
        url == Format(operation.url, parsed_args)
    IN  IF operation.method = "get"
        THEN [url |-> IF url = None THEN None ELSE url \o PageQuery,
              filter |-> FilterHeader(operation, parsed_args, filter_header),
              body |-> None,
              json |-> VNone]
        ELSE LET expanded_json == Expand(BodyEntries(operation, parsed_args), VObj(<< >>))
             IN  [url |-> url, filter |-> None,
                  body |-> Dumps(expanded_json),
                  json |-> expanded_json]

(***************************************************************************)
(* Response Schema Flattener.                                              *)
(***************************************************************************)
ModelAttr(name, info) ==
    [name |-> name,
     filterable |-> Get(info, "x-linode-filterable", FALSE),
     display |-> Get(info, "x-linode-cli-display", FALSE),
     datatype |-> IF Has(info, "type") /\ info["type"] # "" THEN info["type"] ELSE "string",
     color_map |-> Get(info, "x-linode-cli-color", None),
     item_type |-> IF Has(info, "items") THEN Get(info["items"], "type", None) ELSE None]

RECURSIVE _parse_properties(_, _)
RECURSIVE ParsePropertiesLoop(_, _, _)
ParsePropertiesLoop(keys, props, prefix) ==
    IF Len(keys) = 0 THEN << >>
    ELSE LET name == Head(keys)
             info == props[name]
             here == IF Has(info, "properties")
                     THEN _parse_properties(info["properties"], Append(prefix, name))
                     ELSE << ModelAttr(Join(Append(prefix, name), "."), info) >>
         IN  here \o ParsePropertiesLoop(Tail(keys), props, prefix)

\* CLI._parse_properties(node, prefix)
_parse_properties(props, prefix) == ParsePropertiesLoop(Keys(props), props, prefix)

(***************************************************************************)
(* bake, the part that turns the flattener's dict into CLIArg objects.     *)
(***************************************************************************)
\* the test bake makes to mark the Argument at the dict key arg required
IsRequired(arg, required_fields) == \E i \in DOMAIN required_fields : required_fields[i] = arg

CLIArg(arg, info, required_fields) ==
    [name |-> info["name"],
     arg_type |-> info["type"],
     description |-> Split(info["desc"], ".")[1] \o ".",
     path |-> arg,
     arg_format |-> info["format"],
     list_item |-> Get(info, "list_item", None),
     required |-> IsRequired(arg, required_fields),
     arg_item_type |-> Get(info, "item_type", None)]

\* cli_args, by path
CliArgs(parsed, required_fields) ==
    [arg \in DOMAIN parsed |-> CLIArg(arg, parsed[arg], required_fields)]

(***************************************************************************)
(* bake, one path and one method at a time.  A document lists its paths in *)
(* order: doc["paths"] is a sequence of <<path, data>>.  A value that may  *)
(* be None or a list (action_aliases, allowed_defaults) or None or an      *)
(* object (response_model) is tagged like a JSON value.                    *)
(***************************************************************************)
METHODS == << "get", "post", "put", "delete" >>

JSON == "application/json"

URLParam(name, param_type) == [name |-> name, param_type |-> param_type]

\* the params of a path: its "parameters", each resolved if it is a $ref
PathParams(doc, data) ==
    IF ~Has(data, "parameters") THEN << >>
    ELSE [i \in DOMAIN data["parameters"] |->
            LET info == IF Has(data["parameters"][i], "$ref")
                        THEN _resolve_ref(doc, data["parameters"][i]["$ref"])
                        ELSE data["parameters"][i]
            IN  URLParam(info["name"], info["schema"]["type"])]

\* whether the gathering of the params raises: a $ref that does not resolve
ParamsRaise(doc, data) ==
    /\ Has(data, "parameters")
    /\ \E i \in DOMAIN data["parameters"] :
          /\ Has(data["parameters"][i], "$ref")
          /\ IsErr(_resolve_ref(doc, data["parameters"][i]["$ref"]))

\* data.get("x-linode-cli-command") or "default"
CommandOf(data) ==
    IF Has(data, "x-linode-cli-command") /\ data["x-linode-cli-command"] # ""
    THEN data["x-linode-cli-command"] ELSE "default"

\* data[m].get("x-linode-cli-action") or data[m].get("operationId"), tagged:
\* a string, a list of strings, or None
ActionOf(op) ==
    IF Has(op, "x-linode-cli-action") /\ Len(op["x-linode-cli-action"].v) > 0
    THEN op["x-linode-cli-action"]
    ELSE IF Has(op, "operationId") /\ op["operationId"] # "" THEN VStr(op["operationId"])
    ELSE VNone

\* whether bake passes over the method: skipped, or without an action
Skipped(op) ==
    \/ Get(op, "x-linode-cli-skip", FALSE)
    \/ ActionOf(op).k = "none"
    \/ (ActionOf(op).k = "list" /\ Len(ActionOf(op).v) < 1)

HasJsonBody(m, op) ==
    /\ m \in {"post", "put"}
    /\ Has(op, "requestBody")
    /\ Has(op["requestBody"]["content"], JSON)

\* required_fields += s["required"], where s is the body schema at one step:
\* the raw schema (whose list required_fields is, once taken from it), a
\* property map (then s["required"] is the schema of a property of that name
\* and its keys are added), or the schema a $ref led to
Extend(required_fields, s, is_raw, is_property_map) ==
    IF ~Has(s, "required") THEN required_fields
    ELSE IF is_property_map THEN required_fields \o Keys(s["required"])
    ELSE IF is_raw THEN required_fields \o required_fields
    ELSE required_fields \o s["required"]

\* the steps bake resolves the body schema in, with required_fields after each
BodySteps(doc, raw) ==
    LET r0 == IF Has(raw, "required") THEN raw["required"] ELSE << >>
        merged == Has(raw, "allOf")
        s1 == IF merged THEN _resolve_allOf(doc, raw["allOf"]) ELSE raw
        r1 == Extend(r0, s1, ~merged, merged)
        followed == Has(s1, "$ref")
        s2 == IF followed THEN _resolve_ref(doc, s1["$ref"]) ELSE s1
        r2 == Extend(r1, s2, ~merged /\ ~followed, merged /\ ~followed)
        opened == Has(s2, "properties")
        s3 == IF opened THEN s2["properties"] ELSE s2
        r3 == Extend(r2, s3, ~merged /\ ~followed /\ ~opened, opened \/ (merged /\ ~followed))
    IN  [schema |-> s3, required_fields |-> r3]

\* where in the document the 200 response of a method keeps its schema
ResponseContent(i, m) == << "paths", i, 2, m, "responses", "200", "content", JSON >>

RECURSIVE At(_, _)
At(d, loc) == IF Len(loc) = 0 THEN d ELSE At(d[Head(loc)], Tail(loc))

RECURSIVE SetAt(_, _, _)
SetAt(d, loc, val) ==
    IF Len(loc) = 0 THEN val
    ELSE [d EXCEPT ![Head(loc)] = SetAt(d[Head(loc)], Tail(loc), val)]

HasJsonResponse(op) ==
    /\ Has(op["responses"], "200")
    /\ Has(op["responses"]["200"]["content"], JSON)

\* whether the response stage raises: the test for a JSON body subscripts
\* "content" of the 200 response, and a $ref of the schema is resolved
ResponseRaises(doc, i, m) ==
    LET responses == doc["paths"][i][2][m]["responses"]
    IN  /\ Has(responses, "200")
        /\ \/ ~Has(responses["200"], "content")
           \/ /\ Has(responses["200"]["content"], JSON)
              /\ LET content == responses["200"]["content"][JSON]
                     own == IF Has(content, "x-linode-cli-use-schema")
                            THEN content["x-linode-cli-use-schema"] ELSE content["schema"]
                 IN  Has(own, "$ref") /\ IsErr(_resolve_ref(doc, own["$ref"]))

\* the dict resp_con first names: where it is in the document
ResponseLoc(doc, i, m) ==
    LET content == At(doc, ResponseContent(i, m))
        own == Append(ResponseContent(i, m),
                      IF Has(content, "x-linode-cli-use-schema")
                      THEN "x-linode-cli-use-schema" ELSE "schema")
    IN  IF Has(At(doc, own), "$ref") THEN Tail(Split(At(doc, own)["$ref"], "/")) ELSE own

\* the document after resp_con.update(self._resolve_allOf(resp_con["allOf"]))
AfterResponse(doc, i, m) ==
    LET loc == ResponseLoc(doc, i, m)
        resp_con == At(doc, loc)
    IN  IF Has(resp_con, "allOf")
        THEN SetAt(doc, loc, Update(resp_con, _resolve_allOf(doc, resp_con["allOf"])))
        ELSE doc

\* the test bake makes for a pagination envelope, on the schema's properties
IsEnvelope(resp_con) == Has(resp_con, "pages") /\ Has(resp_con, "data")

\* the schema whose properties become the columns
RowSchema(doc, i, m) ==
    LET after == AfterResponse(doc, i, m)
        c2 == At(after, ResponseLoc(doc, i, m))
        c3 == IF Has(c2, "properties") /\ Has(c2["properties"], "pages")
              THEN c2["properties"] ELSE c2
    IN  IF IsEnvelope(c3)
        THEN IF Has(c3["data"]["items"], "$ref")
             THEN _resolve_ref(after, c3["data"]["items"]["$ref"])
             ELSE c3["data"]["items"]
        ELSE c3

ResponseModel(attrs, rows, nested_list) ==
    [k |-> "model", attrs |-> attrs, rows |-> rows, nested_list |-> nested_list]

ResponseModelOf(doc, i, m) ==
    LET op == At(doc, << "paths", i, 2, m >>)
    IN  IF ~HasJsonResponse(op) THEN VNone
        ELSE LET resp_con == RowSchema(doc, i, m)
                 content == At(doc, ResponseContent(i, m))
             IN  IF Has(resp_con, "properties")
                 THEN ResponseModel(_parse_properties(resp_con["properties"], << >>),
                                    Get(content, "x-linode-cli-rows", None),
                                    Get(content, "x-linode-cli-nested-list", None))
                 ELSE VNone

\* the test of the collision pass: the param's name is a key of args
Collides(name, parsed) == name \in DOMAIN parsed

\* the name the collision pass gives a param
Renamed(name) == name \o "_"

RECURSIVE CollisionPass(_, _, _, _)
\* for p in use_params: ...; the clones and use_path when the loop is done
CollisionPass(use_params, j, use_path, parsed) ==
    IF j > Len(use_params) THEN [params |-> use_params, path |-> use_path]
    ELSE LET name == use_params[j].name
         IN  IF Collides(name, parsed)
             THEN CollisionPass([use_params EXCEPT ![j].name = Renamed(name)], j + 1,
                                Replace(use_path, "{" \o name \o "}", "{" \o Renamed(name) \o "}"),
                                parsed)
             ELSE CollisionPass(use_params, j + 1, use_path, parsed)

\* CLI._flatten_url_path on a tag of lower-case letters and spaces, which
\* lower() and the removal of the other characters leave as it is
_flatten_url_path(tag) == Replace(tag, " ", "-")

DocsUrl(op, summary) ==
    IF Has(op, "tags") /\ Len(op["tags"]) > 0 /\ Len(summary) > 0
    THEN "https://www.linode.com/docs/api/" \o _flatten_url_path(op["tags"][1])
             \o "/#" \o _flatten_url_path(summary)
    ELSE None

Urls(servers) == [c \in DOMAIN servers |-> servers[c]["url"]]

\* where in the document a method keeps the schema of its JSON request body
BodyLoc(i, m) == << "paths", i, 2, m, "requestBody", "content", JSON, "schema" >>

\* the document after the gathering of required_fields: the list is the raw
\* schema's own list when it has one, and += appends to that list in place
AfterBody(doc, i, m) ==
    LET raw == At(doc, BodyLoc(i, m))
    IN  IF Has(raw, "required")
        THEN SetAt(doc, Append(BodyLoc(i, m), "required"), BodySteps(doc, raw).required_fields)
        ELSE doc

\* the schema _parse_args is handed and required_fields, for a method with a
\* JSON request body; nothing of either for any other
BodyOf(doc, i, m) ==
    IF HasJsonBody(m, doc["paths"][i][2][m])
    THEN BodySteps(doc, At(doc, BodyLoc(i, m)))
    ELSE [schema |-> EmptyDict, required_fields |-> << >>]

\* whether the request-body stage raises: the $ref of the body schema does
\* not resolve
BodyRaises(body) == IsErr(body.schema)

\* the CLIOperation bake registers for the method m of the i-th path, given
\* the path's params, required_fields, the flattener's dict and the model
Operation(doc, i, m, use_params, required_fields, parsed, response_model) ==
    LET path == doc["paths"][i][1]
        data == doc["paths"][i][2]
        op == data[m]
        action == ActionOf(op)
        summary == Get(op, "summary", "")
        renamed == CollisionPass(use_params, 1, path, parsed)
        defaults == IF m \in {"post", "put"} /\ Has(op, "requestBody")
                       /\ Has(op["requestBody"], "x-linode-cli-allowed-defaults")
                    THEN VList(op["requestBody"]["x-linode-cli-allowed-defaults"])
                    ELSE VNone
    IN  [command |-> CommandOf(data),
         action |-> IF action.k = "list" THEN action.v[1] ELSE action.v,
         method |-> m,
         url |-> renamed.path,
         summary |-> summary,
         args |-> CliArgs(parsed, required_fields),
         response_model |-> response_model,
         params |-> renamed.params,
         servers |-> IF Has(op, "servers") THEN Urls(op["servers"]) ELSE Urls(doc["servers"]),
         docs_url |-> DocsUrl(op, summary),
         allowed_defaults |-> defaults,
         action_aliases |-> IF action.k = "list" THEN VList(Tail(action.v)) ELSE VNone]

\* self.spec when the request body of the method is done
AfterRequestBody(doc, i, m) ==
    IF HasJsonBody(m, doc["paths"][i][2][m]) THEN AfterBody(doc, i, m) ELSE doc

\* self.spec when the method is done, from what it was after the request body
AfterMethod(doc, i, m) ==
    IF HasJsonResponse(doc["paths"][i][2][m]) THEN AfterResponse(doc, i, m) ELSE doc

\* self.ops[command][action] = CLIOperation(...) with the first definition
\* of an action kept
RegisterKeepFirst(actions, operation) ==
    IF NsHas(actions, operation.action) THEN actions
    ELSE NsPut(actions, operation.action, operation)

\* self.ops[command][action] = CLIOperation(...)
Register(actions, operation) == NsPut(actions, operation.action, operation)

\* URLParam.clone (linodecli/operation.py): a new URLParam of the same name
\* and type
clone(param) == URLParam(param.name, param.param_type)

\* use_params = [c.clone() for c in params]
Clones(shared) == [k \in DOMAIN shared |-> clone(shared[k])]

\* the path's params after a method, were the collision pass to rename them
\* in place
ParamsAfterInPlace(shared, use_params) == use_params

\* the path's params after a method: the collision pass renames clones
ParamsAfter(shared, use_params) == shared

\* the data file after bake, were it opened for writing before the loops
DataFileOnRaiseTruncated(file) == << >>

\* the data file after a bake that raised: open() was not reached
DataFileOnRaise(file) == file

\* pickle.dump(self.ops, f) into the file opened with "wb"
Pickled(registry) == << registry >>

\* load_baked without its two del statements
SentinelsKept(registry) == registry

\* load_baked: del self.ops["_base_url"]; del self.ops["_spec_version"]
WithoutSentinels(registry) == NsDel(NsDel(registry, "_base_url"), "_spec_version")

(***************************************************************************)
(* The flattener followed by the request translator: every Argument is     *)
(* given a value and the body is built.                                    *)
(***************************************************************************)
MaxItems == 2

ScalarValue(a) == IF a.arg_type = "array" THEN VList(<< VStr("v") >>) ELSE VStr("v")

\* a value for every Argument; an Argument of a list item is given once per item
FullyPopulated(cli_args) ==
    [p \in DOMAIN cli_args |->
        IF cli_args[p].list_item # None
        THEN VList([i \in 1..MaxItems |-> ScalarValue(cli_args[p])])
        ELSE ScalarValue(cli_args[p])]

\* the post operation whose Arguments are the flattener's
BodyOperation(parsed) ==
    [command |-> "default", action |-> "create", method |-> "post", url |-> "/things",
     summary |-> "", args |-> CliArgs(parsed, << >>), response_model |-> VNone,
     params |-> << >>, servers |-> << >>, docs_url |-> None,
     allowed_defaults |-> VNone, action_aliases |-> VNone]

CallDoRequest ==
    /\ pc = "do_request"
    /\ ~IsErr(args)
    /\ LET operation == BodyOperation(args)
       IN  request' = do_request(operation, FullyPopulated(operation.args), VNone)
    /\ pc' = "done"
    /\ UNCHANGED <<spec, ops, node, args, bake_vars>>

NextArgs == CallParseArgs \/ CallDoRequest

SpecArgs == InitArgs /\ [][NextArgs]_vars

(***************************************************************************)
(* What the claims about the flattener speak of: the properties of a       *)
(* schema, each with its path, its resolved schema, the path of the        *)
(* outermost array whose items it lies in (None outside every array) and   *)
(* whether it lies below a schema marked read-only.                        *)
(***************************************************************************)
Dotted(path) == Join(path, ".")

ResolvedItems(doc, info) ==
    IF ~Has(info, "items") THEN EmptyDict
    ELSE IF Has(info["items"], "$ref") THEN _resolve_ref(doc, info["items"]["$ref"])
    ELSE info["items"]

IsArray(info) == Get(info, "type", "string") = "array" /\ Has(info, "items")

\* an array whose items are an object with its own properties
IsObjectArray(doc, info) ==
    /\ IsArray(info)
    /\ Get(ResolvedItems(doc, info), "type", None) = "object"
    /\ Has(ResolvedItems(doc, info), "properties")

\* an array whose items are scalar
IsScalarArray(doc, info) ==
    /\ IsArray(info)
    /\ ~Has(ResolvedItems(doc, info), "properties")
    /\ Get(ResolvedItems(doc, info), "type", None) \in {"string", "integer", "boolean", "number"}

RECURSIVE Properties(_, _, _, _, _)
Properties(doc, props, prefix, list, ro) ==
    UNION {
        LET info  == FollowRefs(doc, props[name])
            path  == Append(prefix, name)
            items == ResolvedItems(doc, info)
            here  == [path |-> path, info |-> info, list |-> list, below_ro |-> ro]
        IN  {here}
            \cup (IF Has(info, "properties")
                  THEN Properties(doc, info["properties"], path, list, ro \/ ReadOnly(info))
                  ELSE {})
            \cup (IF IsObjectArray(doc, info)
                  THEN Properties(doc, items["properties"], path,
                                  IF list = None THEN Dotted(path) ELSE list,
                                  ro \/ ReadOnly(info) \/ ReadOnly(items))
                  ELSE {})
        : name \in DOMAIN props }

AllProperties == Properties(spec, node, << >>, None, FALSE)

\* no property name has a dot in it, so that a dotted path names one property
NoDottedNames == \A q \in AllProperties : ~Contains(q.path[Len(q.path)], ".")

\* the dotted path p is q or lies below q
AtOrBelow(p, q) == p = q \/ (Len(p) > Len(q) /\ SubSeq(p, 1, Len(q) + 1) = q \o ".")

Flattened == pc # "parse_args" /\ ~IsErr(args)

(***************************************************************************)
(* C8: no Argument lies at or below a property marked read-only, be it a   *)
(* read-only scalar, a read-only object with nested properties or a        *)
(* read-only array of objects: neither the property nor a descendant of    *)
(* it is an Argument.  (Stated for schemas whose property names have no    *)
(* dot.)                                                                   *)
(***************************************************************************)
C8_NoArgumentBelowReadOnly ==
    (Flattened /\ NoDottedNames) =>
        \A q \in AllProperties :
            ReadOnly(q.info) => \A p \in DOMAIN args : ~AtOrBelow(p, Dotted(q.path))

(***************************************************************************)
(* The array rule of the flattener.                                        *)
(***************************************************************************)
\* the properties the flattener reaches and does not skip as read-only
Accepted ==
    { q \in AllProperties : ~ReadOnly(q.info) /\ ~q.below_ro
                            /\ ~ReadOnly(ResolvedItems(spec, q.info)) }

ItemFields(q) == ResolvedItems(spec, q.info)["properties"]

FieldPath(q, f) == Dotted(Append(q.path, f))

Tag(p) == Get(args[p], "list_item", None)

\* an item field that is itself one Argument: no nested properties, and not
\* an array of objects
IsLeafField(info) == ~Has(info, "properties") /\ ~IsObjectArray(spec, info)

ScalarArrayRule(q, tag) ==
    /\ Dotted(q.path) \in DOMAIN args
    /\ Get(args[Dotted(q.path)], "item_type", None) = ResolvedItems(spec, q.info)["type"]
    /\ Tag(Dotted(q.path)) = tag
    /\ \A p \in DOMAIN args : AtOrBelow(p, Dotted(q.path)) => p = Dotted(q.path)

LeafShape == [k |-> "leaf", v |-> None]
Absent == [k |-> "absent", v |-> None]

RECURSIVE SchemaShape(_, _)
RECURSIVE PropertyShape(_, _)
PropertyShape(doc, raw) ==
    LET info  == FollowRefs(doc, raw)
        items == ResolvedItems(doc, info)
    IN  IF ReadOnly(info) THEN Absent
        ELSE IF Has(info, "properties")
        THEN LET sub == SchemaShape(doc, info["properties"])
             IN  IF DOMAIN sub = {} THEN Absent ELSE [k |-> "obj", v |-> sub]
        ELSE IF IsObjectArray(doc, info) /\ ~ReadOnly(items)
        THEN LET sub == SchemaShape(doc, items["properties"])
             IN  IF DOMAIN sub = {} THEN Absent ELSE [k |-> "list", v |-> sub]
        ELSE LeafShape

SchemaShape(doc, props) ==
    LET kept == { name \in DOMAIN props : PropertyShape(doc, props[name]).k # "absent" }
    IN  [name \in kept |-> PropertyShape(doc, props[name])]

RECURSIVE BodyShape(_)
BodyShape(val) ==
    CASE val.k = "obj" ->
            [k |-> "obj", v |-> [key \in NsKeys(val.v) |-> BodyShape(NsGet(val.v, key))]]
      [] val.k = "list" ->
            IF Len(val.v) > 0 /\ \A i \in DOMAIN val.v : val.v[i].k = "obj"
            THEN IF \A i \in DOMAIN val.v : BodyShape(val.v[i]) = BodyShape(val.v[1])
                 THEN [k |-> "list", v |-> BodyShape(val.v[1]).v]
                 ELSE [k |-> "uneven list", v |-> None]
            ELSE LeafShape
      [] val.k = "err" -> [k |-> "TypeError", v |-> None]
      [] OTHER -> LeafShape

Translated == pc = "done"

\* no array of objects lies in the items of another array
NoNestedObjectArrays ==
    \A q \in AllProperties : IsObjectArray(spec, q.info) => q.list = None

(***************************************************************************)
(* C1: flatten/unflatten round trip.  The Arguments _parse_args returns    *)
(* for a request-body schema, each given a value, are re-nested by         *)
(* do_request into a body whose shape is the shape of the schema           *)
(* restricted to its non-read-only leaves; the values of the Arguments     *)
(* tagged list_item are a sequence of objects at the array's path.         *)
(* (Stated for the schemas a dotted path can encode: property names        *)
(* without a dot, no array of objects inside the items of another array.)  *)
(***************************************************************************)
C1_RoundTrip ==
    (Translated /\ NoDottedNames /\ NoNestedObjectArrays) =>
        BodyShape(request.json) = [k |-> "obj", v |-> SchemaShape(spec, node)]

(***************************************************************************)
(* _resolve_allOf as a program: it is handed the contents of an allOf, a   *)
(* list of at most MaxMembers members, literal or $ref.                    *)
(***************************************************************************)
MaxMembers == 3

\* the components the members refer to
AllOfDoc ==
    [components |-> [schemas |->
        [Row |-> [type |-> "object",
                  properties |-> [id |-> [type |-> "boolean"],
                                  page |-> [type |-> "integer"]]],
         Env |-> [type |-> "object",
                  properties |-> [row |-> [type |-> "object",
                                           properties |-> [status |-> [type |-> "number"],
                                                           data |-> [type |-> "string"]]]]],
         Name |-> [type |-> "string"]]]]

Members ==
    { [type |-> "object", properties |-> [id |-> [type |-> "string"]]],
      [type |-> "object", properties |-> [id |-> [type |-> "integer"],
                                          status |-> [type |-> "string"]]],
      [type |-> "object"],
      ("$ref" :> "#/components/schemas/Row"),
      ("$ref" :> "#/components/schemas/Env/properties/row/properties"),
      ("$ref" :> "#/components/schemas/Name") }

AllOfLists == UNION { [1..n -> Members] : n \in 1..MaxMembers }

InitAllOf ==
    /\ pc = "resolve_allOf"
    /\ spec = AllOfDoc
    /\ ops = << >>
    /\ node \in AllOfLists
    /\ args = EmptyDict
    /\ request = NoRequest
    /\ Constructed

CallResolveAllOf ==
    /\ pc = "resolve_allOf"
    /\ args' = _resolve_allOf(spec, node)
    /\ pc' = "resolved"
    /\ UNCHANGED <<spec, ops, node, request, bake_vars>>

NextAllOf == CallResolveAllOf

SpecAllOf == InitAllOf /\ [][NextAllOf]_vars

\* the members of the list that define the property name
Defining(name) == { i \in DOMAIN node : name \in DOMAIN MemberProps(spec, node[i]) }

Last(S) == CHOOSE i \in S : \A j \in S : j <= i

(***************************************************************************)
(* C5: last-write-wins law of _resolve_allOf.  The returned property map   *)
(* has exactly the union of the members' property names, and a name        *)
(* defined by several members maps to the definition of the last member    *)
(* in list order that defines it.                                          *)
(***************************************************************************)
C5_LastWriteWins ==
    pc = "resolved" =>
        /\ DOMAIN args = UNION { DOMAIN MemberProps(spec, node[i]) : i \in DOMAIN node }
        /\ \A name \in DOMAIN args :
              args[name] = MemberProps(spec, node[Last(Defining(name))])[name]

\* a name defined by three members, literal and $ref, with three definitions
C5_Witness ==
    /\ pc = "resolved"
    /\ Cardinality(Defining("id")) = 3
    /\ \E i \in Defining("id") : Has(node[i], "$ref")
    /\ \A i, j \in Defining("id") :
          i # j => MemberProps(spec, node[i])["id"] # MemberProps(spec, node[j])["id"]
    /\ args["id"] = MemberProps(spec, node[3])["id"]


(***************************************************************************)
(* The documents bake is handed.  A document is told by a few choices: the *)
(* parameters of its main path, the properties of the post's request body, *)
(* the form the body schema has and whether it names a required field, the *)
(* form of the get's 200 response and the row schema it leads to, how the  *)
(* get names its action, and the paths that follow the main path.          *)
(***************************************************************************)
MaxPaths == 2

Ref(kind, name) == ("$ref" :> ("#/components/" \o kind \o "/" \o name))

Column(type) == ("type" :> type) @@ ("x-linode-filterable" :> TRUE)

ParamChoices == {"none", "id", "id id_", "ref", "broken"}
PropChoices == {"none", "label", "id", "id id_", "id.x", "id[].x", "a allOf", "a[] allOf"}
FormChoices == {"inline", "ref", "allOf", "allOf raw", "broken"}
RequiredChoices == {"none", "named"}
RespChoices == {"none", "no content", "no json", "broken", "direct", "envelope",
                "envelope inline", "allOf", "use-schema"}
Rows == {"Thing", "Paged", "Merged"}
ActionChoices == {"str", "list", "opid", "skip", "missing"}
ExtraPaths == {"dup", "hidden", "misc", "same", "shadow"}

\* two object schemas for an allOf to merge
Inner == [type |-> "object", properties |-> [x |-> StringLeaf]]
Also == [type |-> "object", properties |-> [y |-> StringLeaf]]

BodyProps(props) ==
    CASE props = "label"  -> ("label" :> StringLeaf)
      [] props = "id"     -> ("id" :> StringLeaf) @@ ("label" :> StringLeaf)
      [] props = "id id_" -> ("id" :> StringLeaf) @@ ("id_" :> StringLeaf)
      [] props = "id.x"   -> ("id" :> Composite("object", ("x" :> StringLeaf)))
      [] props = "id[].x" -> ("id" :> Composite("array", ("x" :> StringLeaf)))
      [] props = "a allOf" -> ("a" :> [allOf |-> << Inner, Also >>])
      [] props = "a[] allOf" ->
            ("a" :> [type |-> "array", items |-> [allOf |-> << Inner, Also >>]])
      [] OTHER            -> EmptyDict

\* the field a body schema names as required
Named(props) ==
    CASE props \in {"label", "id"} -> "label"
      [] props = "id id_"          -> "id_"
      [] OTHER                     -> "x"

\* an object schema over the properties, with the required list if it has one
ObjectSchema(props, required) ==
    IF required = "named"
    THEN [type |-> "object", required |-> << Named(props) >>, properties |-> BodyProps(props)]
    ELSE [type |-> "object", properties |-> BodyProps(props)]

BodySchema(c) ==
    CASE c.form = "inline" -> ObjectSchema(c.props, c.required)
      [] c.form = "ref"    -> Ref("schemas", "Body")
      [] c.form = "broken" -> Ref("schemas", "Missing")
      [] c.form = "allOf"  -> [allOf |-> << Ref("schemas", "Body"), Also >>]
      [] c.form = "allOf raw" ->
            IF c.required = "named"
            THEN [required |-> << Named(c.props) >>, allOf |-> << Ref("schemas", "Body"), Also >>]
            ELSE [allOf |-> << Ref("schemas", "Body"), Also >>]

Components(c) ==
    [schemas |->
        [Thing |-> [type |-> "object",
                    properties |-> [id |-> Column("integer"), status |-> Column("string")]],
         Paged |-> [type |-> "object",
                    properties |-> [status |-> Column("string"), pages |-> Column("integer")]],
         Merged |-> [allOf |-> << Ref("schemas", "Thing"), Also >>],
         Pagination |-> [type |-> "object",
                         properties |-> [pages |-> [type |-> "integer"],
                                         page |-> [type |-> "integer"]]],
         Body |-> ObjectSchema(c.props, c.required)],
     parameters |-> [id |-> [name |-> "id", schema |-> [type |-> "integer"]]]]

Parameters(params) ==
    CASE params = "id"     -> << [name |-> "id", schema |-> [type |-> "integer"]] >>
      [] params = "id id_" -> << [name |-> "id", schema |-> [type |-> "integer"]],
                                 [name |-> "id_", schema |-> [type |-> "string"]] >>
      [] params = "ref"    -> << Ref("parameters", "id") >>
      [] params = "broken" -> << Ref("parameters", "missing") >>
      [] OTHER             -> << >>

Template(params) ==
    CASE params = "none"   -> "/things"
      [] params = "id id_" -> "/a/{id}/b/{id_}"
      [] OTHER             -> "/things/{id}"

Data(row) == [type |-> "array", items |-> Ref("schemas", row)]

Responses(resp, row) ==
    LET content ==
          CASE resp = "direct"   -> [schema |-> Ref("schemas", row)]
            [] resp = "broken"   -> [schema |-> Ref("schemas", "Missing")]
            [] resp = "envelope" ->
                  [schema |-> [type |-> "object",
                               properties |-> [pages |-> [type |-> "integer"],
                                               page |-> [type |-> "integer"],
                                               data |-> Data(row)]]]
            [] resp = "envelope inline" ->
                  [schema |-> [type |-> "object",
                               properties |-> [pages |-> [type |-> "integer"],
                                               data |-> [type |-> "array",
                                                         items |-> [type |-> "object",
                                                                    properties |-> [id |-> Column("integer")]]]]]]
            [] resp = "allOf"    ->
                  [schema |-> [allOf |-> << Ref("schemas", "Pagination"),
                                            [type |-> "object",
                                             properties |-> [data |-> Data(row)]] >>]]
            [] OTHER ->
                  ("schema" :> Ref("schemas", row))
                    @@ ("x-linode-cli-use-schema" :>
                            [type |-> "object", properties |-> [x |-> StringLeaf]])
                    @@ ("x-linode-cli-rows" :> << "data" >>)
    IN  CASE resp = "none"       -> ("204" :> [description |-> "done"])
          [] resp = "no content" -> ("200" :> [description |-> "done"])
          [] resp = "no json"    ->
                ("200" :> [content |-> ("text/plain" :> [schema |-> StringLeaf])])
          [] OTHER               -> ("200" :> [content |-> (JSON :> content)])

GetOp(c) ==
    LET responses == ("responses" :> Responses(c.resp, c.row))
    IN  CASE c.action = "str" ->
                ("x-linode-cli-action" :> VStr("view")) @@ ("operationId" :> "getThing")
                  @@ ("summary" :> "view thing") @@ ("tags" :> << "the things" >>) @@ responses
          [] c.action = "list" ->
                ("x-linode-cli-action" :> VList(<< "view", "show", "get" >>)) @@ responses
          [] c.action = "opid" ->
                ("operationId" :> "getThing") @@ ("summary" :> "view thing") @@ responses
          [] c.action = "skip" ->
                ("x-linode-cli-skip" :> TRUE) @@ ("operationId" :> "getThing") @@ responses
          [] OTHER -> responses

PostOp(c) ==
    LET shared == ("x-linode-cli-action" :> VStr("create")) @@ ("summary" :> "create a thing. now")
                    @@ ("servers" :> << [url |-> "https://alt"] >>)
                    @@ ("responses" :> Responses("direct", c.row))
    IN  IF c.props = "none" THEN shared
        ELSE shared @@ ("requestBody" :>
                (("x-linode-cli-allowed-defaults" :> << "label" >>)
                   @@ ("content" :> (JSON :> [schema |-> BodySchema(c)]))))

MainPath(c) ==
    LET methods == [get |-> GetOp(c), post |-> PostOp(c),
                    delete |-> ("operationId" :> "deleteThing")
                                 @@ ("responses" :> Responses("none", "Thing"))]
        command == ("x-linode-cli-command" :> "things")
    IN  << Template(c.params),
           IF c.params = "none" THEN command @@ methods
           ELSE command @@ ("parameters" :> Parameters(c.params)) @@ methods >>

ExtraPath(e) ==
    CASE e = "dup" ->
            << "/things", ("x-linode-cli-command" :> "things")
                            @@ ("get" :> (("operationId" :> "view")
                                            @@ ("responses" :> Responses("none", "Thing")))) >>
      [] e = "hidden" ->
            << "/hidden", ("x-linode-cli-command" :> "hidden")
                            @@ ("get" :> (("x-linode-cli-skip" :> TRUE)
                                            @@ ("responses" :> Responses("none", "Thing")))) >>
      [] e = "shadow" ->
            << "/shadow", ("x-linode-cli-command" :> "things")
                            @@ ("get" :> (("operationId" :> "show")
                                            @@ ("responses" :> Responses("none", "Thing")))) >>
      [] e = "same" ->
            << "/same", ("x-linode-cli-command" :> "things")
                          @@ ("get" :> (("operationId" :> "same") @@ ("summary" :> "first")
                                          @@ ("responses" :> Responses("direct", "Thing"))))
                          @@ ("post" :> (("operationId" :> "same") @@ ("summary" :> "second")
                                           @@ ("responses" :> Responses("none", "Thing")))) >>
      [] OTHER ->
            << "/misc/{id}",
               ("parameters" :> Parameters("id"))
                 @@ ("put" :> (("operationId" :> "putMisc")
                                 @@ ("requestBody" :> [content |-> (JSON :> [schema |-> Ref("schemas", "Body")])])
                                 @@ ("responses" :> Responses("direct", "Thing"))))
                 @@ ("delete" :> (("operationId" :> "deleteMisc")
                                    @@ ("responses" :> Responses("none", "Thing")))) >>

Document(c) ==
    [servers |-> << [url |-> "https://api.example/v4"] >>,
     info |-> [version |-> "4.1"],
     components |-> Components(c),
     paths |-> << MainPath(c) >> \o [k \in DOMAIN c.extra |-> ExtraPath(c.extra[k])]]

Extras == UNION { [1..n -> ExtraPaths] : n \in 0..(MaxPaths - 1) }

Plain ==
    [params |-> "id", props |-> "label", form |-> "inline", required |-> "none",
     resp |-> "direct", row |-> "Thing", action |-> "str", extra |-> << >>]

\* the documents differ from a plain one in the request side, in the layers
\* of the body schema, or in the response side
Choices ==
    { [Plain EXCEPT !.params = p, !.props = b, !.extra = e] :
          p \in ParamChoices, b \in PropChoices, e \in Extras }
    \cup { [Plain EXCEPT !.props = b, !.form = f, !.required = r] :
          b \in PropChoices \ {"none"}, f \in FormChoices, r \in RequiredChoices }
    \cup { [Plain EXCEPT !.resp = r[1], !.row = r[2], !.action = a, !.params = p] :
          r \in RespChoices \X Rows, a \in ActionChoices, p \in {"none", "id"} }

(***************************************************************************)
(* bake as a program, one path and one method of METHODS at a step, and    *)
(* load_baked in the process that starts afterwards.                       *)
(***************************************************************************)
\* what an earlier bake of an older document left in the data file
Previous == << <<"_base_url", "https://old.example/v4">>, <<"_spec_version", "3.9">> >>

Init ==
    /\ pc = "bake"
    /\ spec = EmptyDict
    /\ ops = << >>
    /\ node = EmptyDict
    /\ args = EmptyDict
    /\ request = NoRequest
    /\ \E c \in Choices : document = Document(c)
    /\ cursor = [path |-> 0, m |-> 0]
    /\ path_params = << >>
    /\ data_file \in {<< >>, Pickled(Previous)}
    /\ base_url = "https://api.linode.com/v4"
    /\ spec_version = "None"
    /\ call = NoCall

\* self.spec = spec; self.ops = {}
BakeStart ==
    /\ pc = "bake"
    /\ spec' = document
    /\ ops' = << >>
    /\ cursor' = [path |-> 1, m |-> 0]
    /\ pc' = "for path"
    /\ UNCHANGED <<node, args, request, document, path_params, data_file,
                   base_url, spec_version, call>>

\* for path, data in self.spec["paths"].items(): the command and the params
BakePath ==
    /\ pc = "for path"
    /\ cursor.path <= Len(spec["paths"])
    /\ \E data \in {spec["paths"][cursor.path][2]} :
       \E command \in {CommandOf(data)} :
           /\ ops' = IF NsHas(ops, command) THEN ops ELSE Append(ops, <<command, << >> >>)
           /\ IF ParamsRaise(spec, data)
              THEN /\ pc' = "failed"
                   /\ data_file' = DataFileOnRaise(data_file)
                   /\ UNCHANGED <<cursor, path_params>>
              ELSE /\ path_params' = PathParams(spec, data)
                   /\ cursor' = [cursor EXCEPT !.m = 1]
                   /\ pc' = "for m"
                   /\ UNCHANGED data_file
    /\ UNCHANGED <<spec, node, args, request, document, base_url, spec_version, call>>

\* the next turn of for m in METHODS, or the next path
Advance ==
    IF cursor.m < Len(METHODS)
    THEN /\ cursor' = [cursor EXCEPT !.m = cursor.m + 1]
         /\ pc' = "for m"
    ELSE /\ cursor' = [path |-> cursor.path + 1, m |-> 0]
         /\ pc' = "for path"

\* for m in METHODS: one turn of the loop
BakeMethod ==
    /\ pc = "for m"
    /\ \E i \in {cursor.path}, m \in {METHODS[cursor.m]} :
         \E data \in {spec["paths"][i][2]} :
           IF Has(data, m) /\ ~Skipped(data[m])
           THEN \E body \in {BodyOf(spec, i, m)}, bodied \in {AfterRequestBody(spec, i, m)} :
                IF BodyRaises(body) \/ ResponseRaises(bodied, i, m)
                THEN /\ spec' = bodied
                     /\ pc' = "failed"
                     /\ data_file' = DataFileOnRaise(data_file)
                     /\ UNCHANGED <<ops, cursor, path_params>>
                ELSE \E parsed \in {_parse_args(spec, body.schema, << >>, EmptyDict)},
                        response_model \in {ResponseModelOf(bodied, i, m)} :
                     \E operation \in {Operation(spec, i, m, Clones(path_params),
                                                 body.required_fields, parsed, response_model)} :
                     \E actions \in {Register(NsGet(ops, operation.command), operation)} :
                         /\ ops' = NsPut(ops, operation.command, actions)
                         /\ spec' = AfterMethod(bodied, i, m)
                         /\ path_params' = ParamsAfter(path_params, operation.params)
                         /\ Advance
                         /\ UNCHANGED data_file
           ELSE Advance /\ UNCHANGED <<ops, spec, path_params, data_file>>
    /\ UNCHANGED <<node, args, request, document, base_url, spec_version, call>>

\* the end of bake: empty commands go, the two sentinels come, the pickle
BakeFinish ==
    /\ pc = "for path"
    /\ cursor.path > Len(spec["paths"])
    /\ ops' = SelectSeq(ops, LAMBDA e : Len(e[2]) # 0)
                \o << <<"_base_url", spec["servers"][1]["url"]>>,
                      <<"_spec_version", spec["info"]["version"]>> >>
    /\ data_file' = Pickled(ops')
    /\ pc' = "baked"
    /\ UNCHANGED <<spec, node, args, request, document, cursor, path_params,
                   base_url, spec_version, call>>

\* __init__ of the process that runs next, as far as load_baked
LoadBaked ==
    /\ pc = "baked"
    /\ spec' = EmptyDict
    /\ IF Len(data_file) > 0
       THEN /\ ops' = WithoutSentinels(data_file[1])
            /\ base_url' = IF NsHas(data_file[1], "_base_url")
                           THEN NsGet(data_file[1], "_base_url") ELSE base_url
            /\ spec_version' = IF NsHas(data_file[1], "_spec_version")
                               THEN NsGet(data_file[1], "_spec_version") ELSE "None"
       ELSE /\ ops' = None
            /\ UNCHANGED <<base_url, spec_version>>
    /\ cursor' = [path |-> 0, m |-> 0]
    /\ path_params' = << >>
    /\ pc' = "loaded"
    /\ UNCHANGED <<node, args, request, document, data_file, call>>

Next == BakeStart \/ BakePath \/ BakeMethod \/ BakeFinish \/ LoadBaked

Spec == Init /\ [][Next]_vars


(***************************************************************************)
(* The calls that reach do_request: handle_command from the command line   *)
(* and call_operation from a plugin, in a process that has loaded the      *)
(* registry.  What the response is turned into is left out.                *)
(***************************************************************************)
RequestChoices ==
    { [Plain EXCEPT !.params = p, !.props = b, !.action = a, !.resp = r, !.extra = e] :
          p \in {"none", "id"}, b \in {"label", "id"}, a \in {"str", "list"},
          r \in {"direct", "none"}, e \in {<< >>, << "dup" >>, << "shadow" >>} }

InitRequest ==
    /\ pc = "bake"
    /\ spec = EmptyDict
    /\ ops = << >>
    /\ node = EmptyDict
    /\ args = EmptyDict
    /\ request = NoRequest
    /\ \E c \in RequestChoices : document = Document(c)
    /\ cursor = [path |-> 0, m |-> 0]
    /\ path_params = << >>
    /\ data_file = << >>
    /\ base_url = "https://api.linode.com/v4"
    /\ spec_version = "None"
    /\ call = NoCall

\* the aliases an Operation holds (linodecli/operation.py): a list of
\* strings, empty when the action has none
AliasesOf(operation) ==
    IF operation.action_aliases.k = "list" THEN operation.action_aliases.v ELSE << >>

\* handle_command without its search for a matching alias
FindByName(command, action) ==
    IF NsHas(NsGet(ops, command), action) THEN << NsGet(NsGet(ops, command), action) >>
    ELSE << >>

\* the operation handle_command finds, in a sequence that is empty when it
\* finds none: the action of that name, else the first with such an alias
Find(command, action) ==
    LET actions == NsGet(ops, command)
        matching == SelectSeq(actions, LAMBDA e :
                        \E k \in DOMAIN AliasesOf(e[2]) : AliasesOf(e[2])[k] = action)
    IN  IF NsHas(actions, action) THEN << NsGet(actions, action) >>
        ELSE IF Len(matching) > 0 THEN << matching[1][2] >>
        ELSE << >>

\* the names a command line can give a value to besides the URL parameters
Optional(operation) ==
    IF operation.method = "get"
    THEN { operation.response_model.attrs[k].name :
             k \in { k \in DOMAIN operation.response_model.attrs :
                       operation.response_model.attrs[k].filterable } }
    ELSE DOMAIN operation.args

\* a command line: every URL parameter and the chosen optional names
CommandLine(operation, chosen) ==
    LET names == { operation.params[k].name : k \in DOMAIN operation.params }
    IN  [n \in names \cup chosen |-> IF n \in names THEN VStr("7") ELSE VStr("v")]

ActionNames ==
    UNION { UNION { {ops[i][2][j][1]} \cup { AliasesOf(ops[i][2][j][2])[k] :
                                               k \in DOMAIN AliasesOf(ops[i][2][j][2]) } :
                    j \in DOMAIN ops[i][2] } : i \in DOMAIN ops }

Filters == { VNone, VObj(<< >>), VObj(<< <<"status", VStr("f")>> >>) }

\* the get has a model only when the response has columns
OptionalOf(found) ==
    IF Len(found) = 0 THEN {}
    ELSE IF found[1].method = "get" /\ found[1].response_model.k = "none" THEN {}
    ELSE Optional(found[1])

HandleCommand ==
    /\ pc = "loaded"
    /\ \E command \in NsKeys(ops) \cup {"nothing"}, action \in ActionNames \cup {"nothing"} :
         LET found == IF NsHas(ops, command) THEN Find(command, action) ELSE << >>
         IN  \E chosen \in SUBSET OptionalOf(found) :
               IF Len(found) = 0
               THEN /\ pc' = "exit"
                    /\ call' = [NoCall EXCEPT !.command = command, !.action = action]
                    /\ UNCHANGED request
               ELSE /\ pc' = "requested"
                    /\ call' = [command |-> command, action |-> action,
                                args |-> CommandLine(found[1], chosen),
                                filters |-> VNone, operation |-> found[1]]
                    /\ request' = do_request(found[1], CommandLine(found[1], chosen), VNone)
    /\ UNCHANGED <<spec, ops, node, args, document, cursor, path_params, data_file,
                   base_url, spec_version>>

CallOperation ==
    /\ pc = "loaded"
    /\ \E command \in NsKeys(ops) \cup {"nothing"}, action \in ActionNames \cup {"nothing"},
          filters \in Filters :
         LET known == NsHas(ops, command) /\ NsHas(NsGet(ops, command), action)
             found == IF known THEN << NsGet(NsGet(ops, command), action) >> ELSE << >>
         IN  \E chosen \in SUBSET OptionalOf(found) :
               IF ~known
               THEN /\ pc' = "raised"
                    /\ call' = [NoCall EXCEPT !.command = command, !.action = action,
                                              !.filters = filters]
                    /\ UNCHANGED request
               ELSE /\ pc' = "requested"
                    /\ call' = [command |-> command, action |-> action,
                                args |-> CommandLine(found[1], chosen),
                                filters |-> filters, operation |-> found[1]]
                    /\ request' = do_request(found[1], CommandLine(found[1], chosen), filters)
    /\ UNCHANGED <<spec, ops, node, args, document, cursor, path_params, data_file,
                   base_url, spec_version>>

NextRequest ==
    \/ BakeStart \/ BakePath \/ BakeMethod \/ BakeFinish \/ LoadBaked
    \/ HandleCommand \/ CallOperation

SpecRequest == InitRequest /\ [][NextRequest]_vars

(***************************************************************************)
(* What the claims about bake speak of: the operations in the registry,    *)
(* and for each the path and method of the document it was compiled from.  *)
(***************************************************************************)
Loaded == pc = "loaded"

\* the name bake registers a method under
ActionName(op) == IF ActionOf(op).k = "list" THEN ActionOf(op).v[1] ELSE ActionOf(op).v

\* whether the method m of the i-th path is registered under the operation's key
Registers(i, m, operation) ==
    LET data == document["paths"][i][2]
    IN  /\ Has(data, METHODS[m])
        /\ ~Skipped(data[METHODS[m]])
        /\ CommandOf(data) = operation.command
        /\ ActionName(data[METHODS[m]]) = operation.action

\* the place of the document the operation was compiled from: the last one
\* registered under its key
SourceOf(operation) ==
    LET places == { s \in (DOMAIN document["paths"]) \X (DOMAIN METHODS) :
                        Registers(s[1], s[2], operation) }
    IN  CHOOSE s \in places :
            \A t \in places : t[1] < s[1] \/ (t[1] = s[1] /\ t[2] <= s[2])

SourceData(operation) == document["paths"][SourceOf(operation)[1]][2]

SourceMethod(operation) == SourceData(operation)[operation.method]

\* P holds of every operation of the registry
EveryOperation(P(_)) ==
    \A i \in DOMAIN ops : \A j \in DOMAIN ops[i][2] : P(ops[i][2][j][2])

\* the first dot-separated segment of a dotted path, and the last
Root(path) == Split(path, ".")[1]
Leaf(path) == Split(path, ".")[Len(Split(path, "."))]

SeqToSet(q) == { q[k] : k \in DOMAIN q }

ArgumentRoots(operation) == { Root(a) : a \in DOMAIN operation.args }

\* C3: for every operation bake produced, no URLParam name and no placeholder
\* of the path template equals the first segment of the dotted path of one of
\* the operation's Arguments, nested and list-item Arguments included.
C3_NoCollision ==
    Loaded => EveryOperation(LAMBDA operation :
        /\ SeqToSet(ParamNames(operation.params)) \cap ArgumentRoots(operation) = {}
        /\ SeqToSet(Placeholders(operation.url)) \cap ArgumentRoots(operation) = {})

\* C4: for every path parameter whose name is also the name of a top-level
\* Argument of the operation, the operation's URLParam and a placeholder of
\* its path template both carry the name with the suffix appended, and the
\* placeholder with the original name is gone from the template.
C4_RenamedTogether ==
    Loaded => EveryOperation(LAMBDA operation :
        LET original == PathParams(document, SourceData(operation))
        IN  \A k \in DOMAIN original :
                original[k].name \in DOMAIN operation.args =>
                    /\ operation.params[k].name = original[k].name \o "_"
                    /\ (original[k].name \o "_") \in SeqToSet(Placeholders(operation.url))
                    /\ original[k].name \notin SeqToSet(Placeholders(operation.url)))

\* the schema of a 200 JSON response as the document gives it
ResponseSchema(op) == op["responses"]["200"]["content"][JSON]["schema"]

\* the response is the row schema itself
IsDirect(op, row) ==
    /\ HasJsonResponse(op)
    /\ ~Has(op["responses"]["200"]["content"][JSON], "x-linode-cli-use-schema")
    /\ Get(ResponseSchema(op), "$ref", None) = "#/components/schemas/" \o row

\* the response is a pagination envelope: a pages counter, and a data array
\* whose items are a $ref to the row schema
IsEnvelopeOf(op, row) ==
    /\ HasJsonResponse(op)
    /\ Has(ResponseSchema(op), "properties")
    /\ Has(ResponseSchema(op)["properties"], "pages")
    /\ Has(ResponseSchema(op)["properties"], "data")
    /\ Has(ResponseSchema(op)["properties"]["data"], "items")
    /\ Get(ResponseSchema(op)["properties"]["data"]["items"], "$ref", None)
          = "#/components/schemas/" \o row

\* the columns of an operation's ResponseModel; none when it has no model
Columns(operation) ==
    IF operation.response_model.k = "none" THEN << >>
    ELSE [k \in DOMAIN operation.response_model.attrs |-> operation.response_model.attrs[k].name]

\* C6: for every row schema R, the columns bake derives for a 200 response
\* that is a pagination envelope around a $ref to R are the columns it derives
\* for a 200 response whose schema is R itself.
C6_EnvelopeTransparent ==
    Loaded => EveryOperation(LAMBDA enveloped : EveryOperation(LAMBDA direct :
        \A row \in DOMAIN document["components"]["schemas"] :
            (IsEnvelopeOf(SourceMethod(enveloped), row) /\ IsDirect(SourceMethod(direct), row))
                => Columns(enveloped) = Columns(direct)))

\* the names a schema lists as required
RequiredOf(schema) == IF Has(schema, "required") THEN SeqToSet(schema["required"]) ELSE {}

\* the names required at any layer of the body schema: the raw schema, the
\* members merged by allOf, and the schema a $ref leads to
RequiredAtAnyLayer(doc, raw) ==
    RequiredOf(raw)
      \cup (IF Has(raw, "allOf")
            THEN UNION { RequiredOf(FollowRefs(doc, raw["allOf"][k])) : k \in DOMAIN raw["allOf"] }
            ELSE {})
      \cup (IF Has(raw, "$ref") THEN RequiredOf(_resolve_ref(doc, raw["$ref"])) ELSE {})

\* C9: after bake of a post or put operation, an Argument is marked required
\* if and only if the leaf name of its dotted path is in a required list of
\* the request schema at some layer; Arguments below the top level included.
C9_RequiredPropagation ==
    Loaded => EveryOperation(LAMBDA operation :
        HasJsonBody(operation.method, SourceMethod(operation)) =>
            LET raw == SourceMethod(operation)["requestBody"]["content"][JSON]["schema"]
            IN  \A a \in DOMAIN operation.args :
                    operation.args[a].required
                        <=> Leaf(a) \in RequiredAtAnyLayer(document, raw))


(***************************************************************************)
(* What the claims about do_request speak of: the call that was made, the  *)
(* operation it selected and the request that left.                        *)
(***************************************************************************)
Requested == pc = "requested"

\* the keys of the JSON body at its top level
BodyKeys == IF request.json.k = "obj" THEN NsKeys(request.json.v) ELSE {}

\* C2: for a non-GET operation, the name of a URL parameter of the operation
\* is used for the substitution in the URL only, and is never a key of the
\* JSON request body.
C2_ParamsNotInBody ==
    (Requested /\ call.operation.method # "get") =>
        \A k \in DOMAIN call.operation.params :
            call.operation.params[k].name \notin BodyKeys

\* the parsed arguments that are not URL parameters and have a value
UserFilters ==
    SelectSeq(parse_args(call.operation, call.args), LAMBDA e :
        /\ e[2].k # "none"
        /\ \A k \in DOMAIN call.operation.params : call.operation.params[k].name # e[1])

\* C10: for a GET operation, a filter override that was supplied (an empty
\* mapping too) is the X-Filter header, serialized, whatever the arguments;
\* without one the header holds exactly the parsed arguments that are not URL
\* parameters and have a value, and there is no header when there are none.
C10_FilterHeader ==
    (Requested /\ call.operation.method = "get") =>
        IF call.filters.k # "none"
        THEN request.filter = Dumps(call.filters)
        ELSE IF Len(UserFilters) = 0
        THEN request.filter = None
        ELSE request.filter = Dumps(VObj(UserFilters))

\* a GET was called with an empty mapping as override and an argument of the
\* user's beside it, and the header is the empty mapping
C10_Witness ==
    /\ Requested
    /\ call.operation.method = "get"
    /\ call.filters.k = "obj"
    /\ Len(call.filters.v) = 0
    /\ "status" \in DOMAIN call.args
    /\ request.filter = "{}"

(***************************************************************************)
(* A bake that raises, and the operations without a success JSON body.     *)
(***************************************************************************)
\* bake raised in the turn of the loop over METHODS the cursor is at
RaisedInMethod == pc = "failed" /\ cursor.m > 0

\* no 200 response, a 200 response without a content block, or a 200
\* response whose content has no application/json entry
NoSuccessBody(op) ==
    \/ ~Has(op["responses"], "200")
    \/ ~Has(op["responses"]["200"], "content")
    \/ ~Has(op["responses"]["200"]["content"], JSON)

\* C11: bake does not raise in the turn of an operation with no success JSON
\* body (unless its request body already raised), and every operation of the
\* registry compiled from such a method has no ResponseModel.
C11_NoSuccessBody ==
    /\ RaisedInMethod =>
          LET i == cursor.path
              m == METHODS[cursor.m]
          IN  NoSuccessBody(spec["paths"][i][2][m]) => BodyRaises(BodyOf(spec, i, m))
    /\ Loaded => EveryOperation(LAMBDA operation :
          NoSuccessBody(SourceMethod(operation)) => operation.response_model.k = "none")

\* C12: a step of bake that raises leaves the data file as it was, and the
\* data file changes only in the step that ends bake, when every path and
\* method has been compiled.
C12_AllOrNothing ==
    [][/\ pc' = "failed" => data_file' = data_file
       /\ data_file' # data_file =>
             /\ pc = "for path" /\ cursor.path > Len(spec["paths"])
             /\ pc' = "baked"]_vars

\* bake raised after it had registered an operation, with the artifact of an
\* earlier bake in the data file
C12_Witness ==
    /\ pc = "failed"
    /\ data_file = Pickled(Previous)
    /\ \E i \in DOMAIN ops : Len(ops[i][2]) > 0

(***************************************************************************)
(* The registry a later process loads, against the document it was baked   *)
(* from.  Both processes run in the directory of the package, where bake   *)
(* writes the data file and load_baked looks for it.                       *)
(***************************************************************************)
\* the methods of the i-th path that bake registers
Registered(i) ==
    { m \in DOMAIN METHODS :
        /\ Has(document["paths"][i][2], METHODS[m])
        /\ ~Skipped(document["paths"][i][2][METHODS[m]]) }

\* the commands of the document that have at least one action
Commands ==
    { CommandOf(document["paths"][i][2]) :
        i \in { j \in DOMAIN document["paths"] : Registered(j) # {} } }

\* the mapping bake compiled: what it pickled, the two sentinels apart
Compiled == SelectSeq(data_file[1], LAMBDA e : e[1] \notin {"_base_url", "_spec_version"})

\* C13: the mapping load_baked leaves is the one bake compiled and holds
\* neither sentinel key; base_url is the URL of the document's first server
\* and spec_version its info.version; a command is a key exactly when the
\* document gives it at least one action.
C13_RoundTrip ==
    Loaded =>
        /\ ops = Compiled
        /\ ~NsHas(ops, "_base_url") /\ ~NsHas(ops, "_spec_version")
        /\ base_url = document["servers"][1]["url"]
        /\ spec_version = document["info"]["version"]
        /\ NsKeys(ops) = Commands

\* a registry was loaded whose document has a command with actions and a
\* command with none
C13_Witness ==
    /\ Loaded
    /\ Commands # {}
    /\ \E i \in DOMAIN document["paths"] : CommandOf(document["paths"][i][2]) \notin Commands

\* C16: while bake runs and when it is done, self.spec, the document bake
\* was handed, is the document as it was when bake began: every response
\* schema and every required list of it included.
C16_DocumentUnchanged ==
    pc \in {"for path", "for m", "baked", "failed"} => spec = document

\* the collision pass renames a param of the method the operation was
\* compiled from
CollidesIn(operation) ==
    \E k \in DOMAIN PathParams(document, SourceData(operation)) :
        Collides(PathParams(document, SourceData(operation))[k].name, operation.args)

\* C17: an operation none of whose path parameters is also the name of one
\* of its Arguments has the URLParams and the path template of the document,
\* whatever the collision pass renamed for the other methods of the path,
\* before it or after it.
C17_ParamsPerMethod ==
    Loaded => EveryOperation(LAMBDA operation :
        ~CollidesIn(operation) =>
            /\ operation.params = PathParams(document, SourceData(operation))
            /\ operation.url = document["paths"][SourceOf(operation)[1]][1])

\* a path whose post had a param renamed, between a get and a delete
C17_Witness ==
    /\ Loaded
    /\ \E i \in DOMAIN ops : \E j, k, l \in DOMAIN ops[i][2] :
          /\ ops[i][2][j][2].method = "get" /\ ops[i][2][k][2].method = "post"
          /\ ops[i][2][l][2].method = "delete"
          /\ SourceOf(ops[i][2][j][2])[1] = 1 /\ SourceOf(ops[i][2][k][2])[1] = 1
          /\ SourceOf(ops[i][2][l][2])[1] = 1
          /\ CollidesIn(ops[i][2][k][2])
          /\ ~CollidesIn(ops[i][2][j][2]) /\ ~CollidesIn(ops[i][2][l][2])
          /\ Len(ops[i][2][l][2].params) > 0

\* the properties of the request body schema of a method, the schema given
\* inline or by a $ref
BodyProperties(op) ==
    LET schema == FollowRefs(document, op["requestBody"]["content"][JSON]["schema"])
    IN  IF Has(schema, "properties") THEN schema["properties"] ELSE EmptyDict

\* the fields an allOf merges that are not read-only
MergedLeaves(members) ==
    { f \in DOMAIN _resolve_allOf(document, members) :
        ~ReadOnly(_resolve_allOf(document, members)[f]) }

\* the schema is an array whose items are defined by allOf
HasAllOfItems(info) ==
    /\ Has(info, "type") /\ info["type"] = "array"
    /\ Has(info, "items") /\ Has(info["items"], "allOf")

\* C18: for a property k of the request body that is defined by allOf, the
\* operation has an Argument at k.<leaf> for every merged leaf that is not
\* read-only and none at k; for an array property k whose items are defined
\* by allOf, the merged item fields are Arguments at k.<leaf> tagged with the
\* list k, and k itself is no Argument.
C18_AllOfFlattened ==
    Loaded => EveryOperation(LAMBDA operation :
        HasJsonBody(operation.method, SourceMethod(operation)) =>
            LET props == BodyProperties(SourceMethod(operation))
            IN  \A k \in DOMAIN props :
                  /\ Has(props[k], "allOf") =>
                        /\ k \notin DOMAIN operation.args
                        /\ \A f \in MergedLeaves(props[k]["allOf"]) :
                              (k \o "." \o f) \in DOMAIN operation.args
                  /\ HasAllOfItems(props[k]) =>
                        /\ k \notin DOMAIN operation.args
                        /\ \A f \in MergedLeaves(props[k]["items"]["allOf"]) :
                              /\ (k \o "." \o f) \in DOMAIN operation.args
                              /\ operation.args[k \o "." \o f].list_item = k)

(***************************************************************************)
(* Dispatch by name and by alias.                                          *)
(***************************************************************************)
\* the methods of the document that bake registers
Places ==
    { s \in (DOMAIN document["paths"]) \X (DOMAIN METHODS) : s[2] \in Registered(s[1]) }

PlaceData(s) == document["paths"][s[1]][2]

PlaceMethod(s) == PlaceData(s)[METHODS[s[2]]]

\* the names the document gives a method: its action and its aliases
NamesOf(s) ==
    IF ActionOf(PlaceMethod(s)).k = "list" THEN SeqToSet(ActionOf(PlaceMethod(s)).v)
    ELSE {ActionOf(PlaceMethod(s)).v}

\* the methods whose action override is a list
ListPlaces == { s \in Places : ActionOf(PlaceMethod(s)).k = "list" }

\* no other method of the same command shares a name with the method
Unambiguous(s) ==
    \A t \in Places \ {s} :
        CommandOf(PlaceData(t)) = CommandOf(PlaceData(s)) => NamesOf(t) \cap NamesOf(s) = {}

\* the operation of the registry under the canonical action of the method
Canonical(s) ==
    NsGet(NsGet(ops, CommandOf(PlaceData(s))), ActionOf(PlaceMethod(s)).v[1])

\* the operation of the registry was compiled from the method, its aliases
\* the rest of the list
CompiledFrom(operation, s) ==
    /\ operation.method = METHODS[s[2]]
    /\ operation.action = ActionOf(PlaceMethod(s)).v[1]
    /\ AliasesOf(operation) = Tail(ActionOf(PlaceMethod(s)).v)

\* the action names some operation of the command or one of its aliases
Matches(command, action) ==
    /\ NsHas(ops, command)
    /\ \E j \in DOMAIN NsGet(ops, command) :
          \/ NsGet(ops, command)[j][1] = action
          \/ action \in SeqToSet(AliasesOf(NsGet(ops, command)[j][2]))

\* a process has the registry and has called, or is about to
Serving == pc \in {"loaded", "requested", "exit", "raised"}

\* the rules of dispatch for the methods P holds of
DispatchRule(P(_)) ==
    /\ Serving =>
          \A s \in { t \in ListPlaces : P(t) } :
              /\ NsHas(ops, CommandOf(PlaceData(s)))
              /\ NsHas(NsGet(ops, CommandOf(PlaceData(s))), ActionOf(PlaceMethod(s)).v[1])
              /\ CompiledFrom(Canonical(s), s)
              /\ (call.command = CommandOf(PlaceData(s)) /\ call.action \in NamesOf(s)) =>
                    /\ pc # "exit"
                    /\ pc = "requested" => call.operation = Canonical(s)
    /\ pc = "requested" => Matches(call.command, call.action)
    /\ pc = "exit" => ~Matches(call.command, call.action) /\ request = NoRequest

\* C14 as claimed: every method whose action override is a list [a0, ..., an]
\* is in the registry under a0 with the aliases [a1, ..., an], and
\* handle_command with any of a0..an selects that operation; an action that
\* matches nothing ends in the 'no action' failure and no request is made.
C14_AliasesAsClaimed == DispatchRule(LAMBDA s : TRUE)

\* C14: the same, for the methods that share none of their names with
\* another method of the same command.
C14_Aliases == DispatchRule(Unambiguous)

\* handle_command was given an alias of an operation and made the request
C14_Witness ==
    /\ pc = "requested"
    /\ \E s \in { t \in ListPlaces : Unambiguous(t) } :
          /\ call.command = CommandOf(PlaceData(s))
          /\ call.action \in NamesOf(s) \ {ActionOf(PlaceMethod(s)).v[1]}
          /\ call.operation = Canonical(s)

(***************************************************************************)
(* Two methods of a command under the same action.                         *)
(***************************************************************************)
\* the methods bake registers under the same command and action as s
SameKey(s) ==
    { t \in Places : /\ CommandOf(PlaceData(t)) = CommandOf(PlaceData(s))
                     /\ ActionName(PlaceMethod(t)) = ActionName(PlaceMethod(s)) }

\* the one of them bake compiles last: paths in the order of the document,
\* the methods of a path in the order of METHODS
LastOf(s) ==
    CHOOSE t \in SameKey(s) :
        \A u \in SameKey(s) : u[1] < t[1] \/ (u[1] = t[1] /\ u[2] <= t[2])

\* C19: bake completes on a document in which two methods have the same
\* command and action, the registry holds one operation under that command
\* and action, the one compiled last, and an operation is in the registry
\* under its own action only.
C19_LastWins ==
    Loaded =>
        /\ \A s \in Places :
              LET command == CommandOf(PlaceData(s))
                  action == ActionName(PlaceMethod(s))
              IN  /\ NsHas(ops, command)
                  /\ NsHas(NsGet(ops, command), action)
                  /\ Cardinality({ j \in DOMAIN NsGet(ops, command) :
                                     NsGet(ops, command)[j][1] = action }) = 1
                  /\ NsGet(NsGet(ops, command), action).method = METHODS[LastOf(s)[2]]
                  /\ NsGet(NsGet(ops, command), action).summary
                        = Get(PlaceMethod(LastOf(s)), "summary", "")
        /\ \A i \in DOMAIN ops : \A j \in DOMAIN ops[i][2] :
              /\ ops[i][2][j][2].action = ops[i][2][j][1]
              /\ ops[i][2][j][2].command = ops[i][1]

\* a registry was loaded that was baked from a document with two methods
\* of different summaries under the same command and action
C19_Witness ==
    /\ Loaded
    /\ \E s \in Places : /\ LastOf(s) # s
                          /\ Get(PlaceMethod(LastOf(s)), "summary", "")
                                # Get(PlaceMethod(s), "summary", "")

(***************************************************************************)
(* _parse_args one statement at a step, on property maps whose schemas     *)
(* refer to components: to a leaf, through another reference, to           *)
(* themselves, to each other, to the schema that encloses them, or to      *)
(* nothing.  node is the stack of calls, the innermost last; the           *)
(* interpreter runs the next statement whenever there is one.              *)
(***************************************************************************)
\* the recursion limit of the interpreter, scaled down
RecursionLimit == 3

\* the properties of the map the flattener is handed, at most
MaxProps == 2

TermDoc ==
    [components |-> [schemas |->
        [Leaf  |-> StringLeaf,
         Chain |-> Ref("schemas", "Leaf"),
         Self  |-> Ref("schemas", "Self"),
         A     |-> Ref("schemas", "B"),
         B     |-> Ref("schemas", "A"),
         Tree  |-> [type |-> "object", properties |-> [child |-> Ref("schemas", "Tree")]]]]]

InfoKinds ==
    {"leaf", "read-only", "object", "allOf", "Leaf", "Chain", "Self", "A", "Tree", "Missing"}

\* the schema of a property
InfoOf(kind) ==
    CASE kind = "leaf"      -> StringLeaf
      [] kind = "read-only" -> ReadOnlyLeaf
      [] kind = "object"    -> Inner
      [] kind = "allOf"     -> [allOf |-> << Inner, Also >>]
      [] OTHER              -> Ref("schemas", kind)

PropertyNames == << "a", "b" >>

\* the property maps: the n-th property is of the n-th kind
PropertyMap(kinds) == [n \in { PropertyNames[k] : k \in DOMAIN kinds } |->
                         InfoOf(kinds[CHOOSE k \in DOMAIN kinds : PropertyNames[k] = n])]

\* a call of _parse_args(node, prefix, args) about to start its loop
Frame(props, prefix) ==
    [props |-> props, todo |-> Keys(props), prefix |-> prefix, arg |-> None, info |-> EmptyDict]

\* the innermost call
Top == node[Len(node)]

InitTermination ==
    /\ pc = "for arg"
    /\ spec = TermDoc
    /\ ops = << >>
    /\ \E kinds \in UNION { [1..n -> InfoKinds] : n \in 1..MaxProps } :
          node = << Frame(PropertyMap(kinds), << >>) >>
    /\ args = EmptyDict
    /\ request = NoRequest
    /\ Constructed

\* for arg, info in node.items(): the next property, its allOf resolved
ForArg ==
    /\ pc = "for arg"
    /\ Len(Top.todo) > 0
    /\ \E arg \in {Head(Top.todo)} :
       \E info \in {IF Has(Top.props[arg], "allOf")
                     THEN _resolve_allOf(spec, Top.props[arg]["allOf"])
                     ELSE Top.props[arg]} :
           /\ node' = [node EXCEPT ![Len(node)] =
                          [@ EXCEPT !.todo = Tail(@), !.arg = arg, !.info = info]]
           /\ pc' = IF IsErr(info) THEN "raised" ELSE "while"
    /\ UNCHANGED <<spec, ops, args, request, bake_vars>>

\* the loop of a call is done: return args to the caller, which goes on
\* with its own loop
Return ==
    /\ pc = "for arg"
    /\ Len(Top.todo) = 0
    /\ node' = SubSeq(node, 1, Len(node) - 1)
    /\ pc' = IF Len(node) = 1 THEN "returned" ELSE "for arg"
    /\ UNCHANGED <<spec, ops, args, request, bake_vars>>

\* while "$ref" in info:
WhileTest ==
    /\ pc = "while"
    /\ pc' = IF Has(Top.info, "$ref") THEN "resolve" ELSE "properties"
    /\ UNCHANGED <<spec, ops, node, args, request, bake_vars>>

\* info = self._resolve_ref(info["$ref"]), and back to the test
ResolveRef ==
    /\ pc = "resolve"
    /\ \E resolved \in {_resolve_ref(spec, Top.info["$ref"])} :
          IF IsErr(resolved)
          THEN pc' = "raised" /\ UNCHANGED node
          ELSE /\ node' = [node EXCEPT ![Len(node)] = [@ EXCEPT !.info = resolved]]
               /\ pc' = "while"
    /\ UNCHANGED <<spec, ops, args, request, bake_vars>>

\* if "properties" in info: the call of _parse_args on them, which raises
\* RecursionError at the limit; else the rest of the body of the loop
IfProperties ==
    /\ pc = "properties"
    /\ IF Has(Top.info, "properties")
       THEN /\ IF Len(node) >= RecursionLimit
               THEN pc' = "raised" /\ UNCHANGED node
               ELSE /\ node' = Append(node, Frame(Top.info["properties"],
                                                   Append(Top.prefix, Top.arg)))
                    /\ pc' = "for arg"
            /\ UNCHANGED args
       ELSE \E parsed \in {ParseArg(spec, Top.arg, Top.info, Top.prefix, args)} :
              IF IsErr(parsed)
              THEN pc' = "raised" /\ UNCHANGED <<node, args>>
              ELSE args' = parsed /\ pc' = "for arg" /\ UNCHANGED node
    /\ UNCHANGED <<spec, ops, request, bake_vars>>

NextTermination == ForArg \/ Return \/ WhileTest \/ ResolveRef \/ IfProperties

SpecTermination ==
    InitTermination /\ [][NextTermination]_vars /\ WF_vars(NextTermination)

\* _parse_args has returned, or an exception has left it
Terminated == pc \in {"returned", "raised"}

\* C15: on every property map, the resolution of references and the
\* recursion of _parse_args come to an end, by a return or by an exception.
C15_Terminates == <>Terminated

====
